---- MODULE Spec2Model ----
(***************************************************************************)
(* A model of the game-tree renderer of the Game Theory Analyzer:          *)
(* GameNode / Action / Payoff (schemas.py), the field validator            *)
(* GameNode.validate_choices (schemas.py) and draw_game_tree with its      *)
(* nested add_nodes_edges and wrap_text (app.py).                          *)
(*                                                                         *)
(* Python strings are TLA+ strings; an Optional value is a tuple of at     *)
(* most one element.                                                       *)
(* A float probability p is held in tenths (5 stands for 0.5), a float     *)
(* utility as the integer it was built from (10 stands for 10.0).          *)
(***************************************************************************)
EXTENDS Integers, Sequences, FiniteSets, TLC

\* Optional[T]: None is the empty tuple, a present value v is <<v>>
None == <<>>

Some(v) == <<v>>

Get(o) == o[1]

\* ------------------------------------------------------------------------
\* Bounds of the model
\* ------------------------------------------------------------------------

\* number of GameNode objects on the heap
MaxNodes == 4

\* depth of nested add_nodes_edges calls at which the interpreter raises
\* RecursionError (sys.getrecursionlimit(), scaled down)
RecursionLimit == 5

\* ------------------------------------------------------------------------
\* State
\* ------------------------------------------------------------------------

VARIABLES
    heap,      \* the GameNode objects, by handle
    root,      \* the root_node argument: None or Some(handle)
    pc,        \* "construct", "idle", "running", "done"
    built,     \* how many GameNode objects have run their field validator
    errors,    \* what the validators have reported
    stack,     \* the activations of add_nodes_edges, the innermost last
    body,      \* dot.body of the call in progress
    results,   \* what the calls of draw_game_tree gave their caller
    tree0      \* the heap as it was when draw_game_tree was first called

vars == <<heap, root, pc, built, errors, stack, body, results, tree0>>

\* ------------------------------------------------------------------------
\* Strings
\* ------------------------------------------------------------------------

Char(s, i) == SubSeq(s, i, i)

Drop(s, n) == SubSeq(s, n + 1, Len(s))

\* str.isspace for one character
IsSpace(c) == c \in {" ", "\n", "\t"}

RECURSIVE IsBlank(_)
\* chunk.strip() == ''
IsBlank(s) == IF Len(s) = 0 THEN TRUE
              ELSE IsSpace(Char(s, 1)) /\ IsBlank(Drop(s, 1))

Upper == "ABCDEFGHIJKLMNOPQRSTUVWXYZ"

Lowercase == "abcdefghijklmnopqrstuvwxyz"

LowerChar(c) == IF \E i \in 1..Len(Upper) : Char(Upper, i) = c
                THEN Char(Lowercase, CHOOSE i \in 1..Len(Upper) : Char(Upper, i) = c)
                ELSE c

RECURSIVE Lower(_)
\* str.lower
Lower(s) == IF Len(s) = 0 THEN "" ELSE LowerChar(Char(s, 1)) \o Lower(Drop(s, 1))

RECURSIVE Join(_, _)
\* sep.join(parts)
Join(sep, parts) == IF parts = <<>> THEN ""
                    ELSE IF Len(parts) = 1 THEN parts[1]
                    ELSE parts[1] \o sep \o Join(sep, Tail(parts))

RECURSIVE Concat(_)
\* ''.join(parts)
Concat(parts) == IF parts = <<>> THEN "" ELSE parts[1] \o Concat(Tail(parts))

Digit(d) == Char("0123456789", d + 1)

RECURSIVE NatStr(_)
NatStr(n) == IF n < 10 THEN Digit(n) ELSE NatStr(n \div 10) \o Digit(n % 10)

\* str(int)
IntStr(n) == IF n < 0 THEN "-" \o NatStr(-n) ELSE NatStr(n)

\* str(float) of a whole number: 10.0 -> "10.0"
WholeFloatStr(n) == IntStr(n) \o ".0"

\* str(float) of a probability held in tenths: 5 -> "0.5", 10 -> "1.0"
ProbStr(t) == NatStr(t \div 10) \o "." \o Digit(t % 10)

\* ------------------------------------------------------------------------
\* textwrap.wrap, as wrap_text calls it (defaults: replace_whitespace,
\* drop_whitespace, break_long_words; the inputs carry no hyphens)
\* ------------------------------------------------------------------------

RECURSIVE Munge(_)
\* TextWrapper._munge_whitespace: every whitespace character becomes a space
Munge(s) == IF Len(s) = 0 THEN ""
            ELSE (IF IsSpace(Char(s, 1)) THEN " " ELSE Char(s, 1))
                     \o Munge(Drop(s, 1))

RECURSIVE RunEnd(_, _)
\* last index of the run of same-kind characters that starts at i
RunEnd(s, i) == IF i < Len(s) /\ IsSpace(Char(s, i + 1)) = IsSpace(Char(s, i))
                THEN RunEnd(s, i + 1) ELSE i

RECURSIVE Split(_)
\* TextWrapper._split: alternating runs of whitespace and of non-whitespace
Split(s) == IF Len(s) = 0 THEN <<>>
            ELSE <<SubSeq(s, 1, RunEnd(s, 1))>> \o Split(Drop(s, RunEnd(s, 1)))

RECURSIVE TakeFit(_, _, _, _)
\* the inner loop of _wrap_chunks: chunks go to the line while they fit
TakeFit(chunks, width, cur, curLen) ==
    IF chunks # <<>> /\ curLen + Len(chunks[1]) <= width
    THEN TakeFit(Tail(chunks), width, Append(cur, chunks[1]), curLen + Len(chunks[1]))
    ELSE [cur |-> cur, rest |-> chunks, len |-> curLen]

\* TextWrapper._handle_long_word: a chunk wider than the line is cut
HandleLongWord(st, width) ==
    IF st.rest # <<>> /\ Len(st.rest[1]) > width
    THEN LET space_left == IF width < 1 THEN 1 ELSE width - st.len
             chunk == st.rest[1]
         IN  [cur  |-> Append(st.cur, SubSeq(chunk, 1, space_left)),
              rest |-> <<Drop(chunk, space_left)>> \o Tail(st.rest),
              len  |-> st.len + space_left]
    ELSE st

\* drop_whitespace: a line does not end in a whitespace chunk
DropTrailing(cur) ==
    IF cur # <<>> /\ IsBlank(cur[Len(cur)]) THEN SubSeq(cur, 1, Len(cur) - 1) ELSE cur

RECURSIVE WrapChunks(_, _, _)
\* TextWrapper._wrap_chunks; nlines is len(lines) so far
WrapChunks(chunks, width, nlines) ==
    IF chunks = <<>> THEN <<>>
    ELSE LET start == IF IsBlank(chunks[1]) /\ nlines > 0 THEN Tail(chunks) ELSE chunks
             st    == HandleLongWord(TakeFit(start, width, <<>>, 0), width)
             line  == DropTrailing(st.cur)
         IN  IF line # <<>>
             THEN <<Concat(line)>> \o WrapChunks(st.rest, width, nlines + 1)
             ELSE WrapChunks(st.rest, width, nlines)

\* textwrap.wrap(text, width=width)
TextWrap(text, width) == WrapChunks(Split(Munge(text)), width, 0)

\* app.py wrap_text
wrap_text(text, width) ==
    IF text = "" THEN "" ELSE Join("\n", TextWrap(text, width))


\* ------------------------------------------------------------------------
\* schemas.py: Payoff, Action, GameNode
\* ------------------------------------------------------------------------

Nodes == 1..MaxNodes

\* Payoff(outcome_summary, utilities); the dict keeps its insertion order
Payoff(summary, utilities) == [outcome_summary |-> summary, utilities |-> utilities]

\* Action(name, description, probability, next_node)
Action(name, probability, next_node) ==
    [name |-> name, description |-> "", probability |-> probability,
     next_node |-> next_node]

\* GameNode(id, current_player_name, is_terminal, actions, payoff)
GameNode(id, player, is_terminal, actions, payoff) ==
    [id |-> id, current_player_name |-> player, is_terminal |-> is_terminal,
     actions |-> actions, payoff |-> payoff]

\* schemas.py GameNode.validate_choices: the value the validator returns and
\* the errors it raises; a list of fewer than two actions passes
validate_choices(v) ==
    IF v = None \/ v = Some(<<>>)
    THEN [value |-> v, errors |-> <<>>]
    ELSE IF Len(Get(v)) < 2
         THEN [value |-> v, errors |-> <<>>]
         ELSE [value |-> v, errors |-> <<>>]

\* ------------------------------------------------------------------------
\* The trees handed to the renderer
\* ------------------------------------------------------------------------

PayoffHigh == Payoff("Both firms keep prices high and share the market",
                     << <<"A", 10>>, <<"B", -5>> >>)

PayoffLow == Payoff("Price war", << <<"A", -5>>, <<"B", 10>> >>)

\* what a node carries besides the targets of its actions; empty is the
\* value of actions when the node has no action, probs the probabilities of
\* its actions in tenths, taken in turn
Kind(id, player, is_terminal, payoff, empty, probs) ==
    [id |-> id, player |-> player, is_terminal |-> is_terminal,
     payoff |-> payoff, empty |-> empty, probs |-> probs]

DecisionKind == Kind("d1", Some("Company A"), FALSE, None, None, <<None>>)

LeafKind(n) ==
    Kind("t1", None, TRUE, Some(IF n % 2 = 0 THEN PayoffHigh ELSE PayoffLow), None, <<None>>)

\* the kinds the distinguished node of a tree takes
Kinds ==
    { DecisionKind,
      Kind("d1", Some("Company A"), FALSE, None, Some(<<>>), <<Some(5)>>),
      Kind("c1", Some("Nature"), FALSE, None, None, <<Some(3), Some(7)>>),
      Kind("c2", Some("NATURE"), FALSE, Some(PayoffLow), None, <<Some(0), Some(10)>>),
      Kind("u1", None, FALSE, None, None, <<None, Some(5)>>),
      Kind("u2", Some(""), FALSE, None, Some(<<>>), <<None>>),
      Kind("w1", Some("International Monetary Fund"), FALSE, None, None, <<Some(10)>>),
      Kind("t1", None, TRUE, Some(PayoffHigh), None, <<None>>),
      Kind("t2", None, TRUE, None, None, <<Some(3), None>>),
      Kind("t3", Some("Nature"), TRUE, None, Some(<<>>), <<Some(0)>>) }

NamePool == <<"Raise Price", "Lower Price", "Negotiate a Ceasefire Now", "Wait">>

\* the trees of the nodes 1..size: parent[c] is the node whose action leads
\* to c; the nodes beyond size are objects no action leads to (parent 0)
ParentMaps(size) ==
    { p \in [2..MaxNodes -> 0..MaxNodes] :
        \A c \in 2..MaxNodes : IF c <= size THEN 1 <= p[c] /\ p[c] < c ELSE p[c] = 0 }

NoLink == <<0, 0>>

\* one more action, from link[1] to link[2]: from the root or the last node
\* to itself, from the last node back to the root, or from the root to the
\* last node (which a second path then reaches)
Links(size) == {NoLink, <<1, 1>>, <<size, size>>, <<size, 1>>, <<1, size>>}

RECURSIVE Ascending(_)
Ascending(S) == IF S = {} THEN <<>>
                ELSE LET m == CHOOSE a \in S : \A b \in S : a <= b
                     IN  <<m>> \o Ascending(S \ {m})

Targets(parent, link, n) ==
    Ascending({ c \in 2..MaxNodes : parent[c] = n })
        \o (IF link[1] = n THEN <<link[2]>> ELSE <<>>)

BuildNode(parent, link, special, kind, n) ==
    LET k  == IF n = special THEN kind
              ELSE IF Targets(parent, link, n) = <<>> THEN LeafKind(n) ELSE DecisionKind
        ts == Targets(parent, link, n)
        pr(i) == k.probs[((i - 1) % Len(k.probs)) + 1]
    IN  GameNode(k.id, k.player, k.is_terminal,
                 IF ts = <<>> THEN k.empty
                 ELSE Some([i \in 1..Len(ts) |->
                              Action(NamePool[((i - 1) % Len(NamePool)) + 1], pr(i), ts[i])]),
                 k.payoff)

BuildHeap(parent, link, special, kind) ==
    [n \in Nodes |-> BuildNode(parent, link, special, kind, n)]

\* ------------------------------------------------------------------------
\* app.py: draw_game_tree and add_nodes_edges
\* ------------------------------------------------------------------------

\* column widths passed to wrap_text
PlayerWidth == 20

OutcomeWidth == 30

EdgeWidth == 15

\* id(node): the address of a live object, one per object
PyId(n) == 140000 + 64 * n

\* the node's own id field in the place of the object's identity
NodeIdFromField(n) == heap[n].id

\* node_id = str(id(node))
NodeId(n) == IntStr(PyId(n))

\* the truth value of an Optional[str]
TruthyStr(o) == o # None /\ Get(o) # ""

\* the truth value of an Optional[float] held in tenths
TruthyFloat(o) == o # None /\ Get(o) # 0

\* the truth value of an Optional[List]
TruthyList(o) == o # None /\ Get(o) # <<>>

\* the player name without the fallback
PlayerNoFallback(node) ==
    IF node.current_player_name # None THEN Get(node.current_player_name) ELSE ""

\* node.current_player_name or "Unknown"
PlayerOrUnknown(node) ==
    IF TruthyStr(node.current_player_name) THEN Get(node.current_player_name)
    ELSE "Unknown"

\* node.current_player_name and node.current_player_name.lower() == 'nature'
IsNature(node) ==
    TruthyStr(node.current_player_name)
        /\ Lower(Get(node.current_player_name)) = "nature"

\* [f"{k}: {v}" for k, v in node.payoff.utilities.items()]
UtilityLines(utilities) ==
    [i \in 1..Len(utilities) |->
        utilities[i][1] \o ": " \o WholeFloatStr(utilities[i][2])]

\* the label of a terminal node (app.py 83-89)
TerminalLabel(node) ==
    LET outcome_text == IF node.payoff # None
                        THEN wrap_text(Get(node.payoff).outcome_summary, OutcomeWidth)
                        ELSE ""
        payoff_text  == IF node.payoff # None
                        THEN Join("\n", UtilityLines(Get(node.payoff).utilities))
                        ELSE ""
    IN  "Outcome:\n" \o outcome_text \o "\n\nPayoffs:\n" \o payoff_text

\* the label of a decision node (app.py 79, 93)
DecisionLabel(node) == wrap_text(PlayerOrUnknown(node), PlayerWidth) \o "\n(Moves)"

\* dot.node(node_id, label, shape=..., style='filled', fillcolor=...)
NodeRecord(n, node) ==
    [kind |-> "node", name |-> NodeId(n), tail |-> "", head |-> "",
     label |-> IF node.is_terminal THEN TerminalLabel(node) ELSE DecisionLabel(node),
     shape |-> IF node.is_terminal THEN "box"
               ELSE IF IsNature(node) THEN "diamond" ELSE "oval",
     fillcolor |-> IF node.is_terminal THEN "#f0f2f6"
                   ELSE IF IsNature(node) THEN "lightgrey" ELSE "white"]

\* dot.edge(parent_id, node_id, label=wrap_text(edge_label, width=15))
EdgeRecord(parent_id, n, edge_label) ==
    [kind |-> "edge", name |-> "", tail |-> parent_id, head |-> NodeId(n),
     label |-> wrap_text(edge_label, EdgeWidth), shape |-> "", fillcolor |-> ""]

\* lbl of an action (app.py 106-108)
ActionLabel(action) ==
    IF TruthyFloat(action.probability)
    THEN action.name \o "\n(p=" \o ProbStr(Get(action.probability)) \o ")"
    ELSE action.name

\* the loop taking the actions last to first
LoopActionReversed(actions, i) == actions[Len(actions) + 1 - i]

\* the i-th action the loop `for action in node.actions` takes
LoopAction(actions, i) == actions[i]

\* whether `if node.actions:` lets the loop over the actions of the node run
EntersLoop(node) == TruthyList(node.actions)

\* the edge from the parent emitted ahead of the node
EmittedEdgeFirst(n, node, parent_id, edge_label) ==
    (IF TruthyStr(parent_id)
     THEN <<EdgeRecord(Get(parent_id), n, edge_label)>> ELSE <<>>)
        \o <<NodeRecord(n, node)>>

\* what the statements of add_nodes_edges before the loop append to dot.body
\* (app.py 79-102): the node, then the edge from the parent
Emitted(n, node, parent_id, edge_label) ==
    <<NodeRecord(n, node)>>
        \o (IF TruthyStr(parent_id)
            THEN <<EdgeRecord(Get(parent_id), n, edge_label)>> ELSE <<>>)

\* one graph object kept from call to call
SharedDigraph == body

\* graphviz.Digraph(): a graph with an empty body
NewDigraph == <<>>

\* one activation of add_nodes_edges(node, parent_id, edge_label)
Frame(n, parent_id, edge_label) ==
    [node |-> n, parent_id |-> parent_id, edge_label |-> edge_label,
     at |-> "body", i |-> 1]

Init ==
    /\ \E size \in Nodes :
       \E parent \in ParentMaps(size), link \in Links(size), special \in 1..size,
          kind \in Kinds :
          /\ heap = BuildHeap(parent, link, special, kind)
          /\ root \in (IF special = 1 /\ link = NoLink THEN {None, Some(1)} ELSE {Some(1)})
    /\ pc = "construct"
    /\ built = 0
    /\ errors = <<>>
    /\ stack = <<>>
    /\ body = <<>>
    /\ results = <<>>
    /\ tree0 = None

Top == stack[Len(stack)]

TopNode == heap[Top.node]

\* pydantic runs the field validator of `actions` when a GameNode is built,
\* the children before their parent, and stores what the validator returns
ValidateChoices ==
    /\ pc = "construct"
    /\ LET n == MaxNodes - built
           r == validate_choices(heap[n].actions)
       IN  /\ heap' = [heap EXCEPT ![n].actions = r.value]
           /\ errors' = errors \o [k \in 1..Len(r.errors) |->
                                      [nodeId |-> heap[n].id, node |-> n,
                                       rule |-> r.errors[k]]]
    /\ built' = built + 1
    /\ pc' = IF built + 1 = MaxNodes THEN "idle" ELSE "construct"
    /\ UNCHANGED <<root, stack, body, results, tree0>>

\* draw_game_tree(root_node) up to its call of add_nodes_edges (app.py 64-68,
\* 111-112); with a false root_node it returns the new graph at once (113)
DrawGameTree ==
    /\ pc \in {"idle", "done"}
    /\ Len(results) < 2
    /\ body' = NewDigraph
    /\ tree0' = IF results = <<>> THEN Some(heap) ELSE tree0
    /\ IF root # None
       THEN /\ stack' = <<Frame(Get(root), None, "")>>
            /\ pc' = "running"
            /\ UNCHANGED results
       ELSE /\ stack' = <<>>
            /\ pc' = "done"
            /\ results' = Append(results, [outcome |-> "returned", graph |-> NewDigraph])
    /\ UNCHANGED <<heap, root, built, errors>>

\* add_nodes_edges from its first statement to the loop (app.py 71-102)
EmitNode ==
    /\ pc = "running"
    /\ stack # <<>>
    /\ Top.at = "body"
    /\ body' = body \o Emitted(Top.node, TopNode, Top.parent_id, Top.edge_label)
    /\ stack' = [stack EXCEPT ![Len(stack)].at = "loop"]
    /\ UNCHANGED <<heap, root, pc, built, errors, results, tree0>>

\* one turn of the loop: the recursive call for the next action (105-109)
CallChild ==
    /\ pc = "running"
    /\ stack # <<>>
    /\ Top.at = "loop"
    /\ EntersLoop(TopNode)
    /\ Top.i <= Len(Get(TopNode.actions))
    /\ Len(stack) < RecursionLimit
    /\ LET action == LoopAction(Get(TopNode.actions), Top.i)
       IN  stack' = Append([stack EXCEPT ![Len(stack)].i = Top.i + 1],
                           Frame(action.next_node, Some(NodeId(Top.node)),
                                 ActionLabel(action)))
    /\ UNCHANGED <<heap, root, pc, built, errors, body, results, tree0>>

\* the recursive call that exceeds the interpreter's recursion limit raises
\* RecursionError, which unwinds every activation and draw_game_tree itself
RaiseRecursionError ==
    /\ pc = "running"
    /\ stack # <<>>
    /\ Top.at = "loop"
    /\ EntersLoop(TopNode)
    /\ Top.i <= Len(Get(TopNode.actions))
    /\ Len(stack) >= RecursionLimit
    /\ stack' = <<>>
    /\ pc' = "done"
    /\ results' = Append(results, [outcome |-> "RecursionError", graph |-> <<>>])
    /\ UNCHANGED <<heap, root, built, errors, body, tree0>>

\* add_nodes_edges returns: the loop is over, or was not entered
ReturnFrame ==
    /\ pc = "running"
    /\ stack # <<>>
    /\ Top.at = "loop"
    /\ IF EntersLoop(TopNode) THEN Top.i > Len(Get(TopNode.actions)) ELSE TRUE
    /\ stack' = SubSeq(stack, 1, Len(stack) - 1)
    /\ UNCHANGED <<heap, root, pc, built, errors, body, results, tree0>>

\* return dot (app.py 113)
ReturnDot ==
    /\ pc = "running"
    /\ stack = <<>>
    /\ pc' = "done"
    /\ results' = Append(results, [outcome |-> "returned", graph |-> body])
    /\ UNCHANGED <<heap, root, built, errors, stack, body, tree0>>

Next ==
    \/ ValidateChoices
    \/ DrawGameTree
    \/ EmitNode
    \/ CallChild
    \/ RaiseRecursionError
    \/ ReturnFrame
    \/ ReturnDot

Spec == Init /\ [][Next]_vars

TypeOK ==
    /\ pc \in {"construct", "idle", "running", "done"}
    /\ built \in 0..MaxNodes
    /\ Len(stack) <= RecursionLimit
    /\ Len(results) <= 2
    /\ \A k \in DOMAIN body : body[k].kind \in {"node", "edge"}

\* ------------------------------------------------------------------------
\* Vocabulary of the properties
\* ------------------------------------------------------------------------

\* the nodes the actions of n lead to
Succ(h, n) ==
    IF TruthyList(h[n].actions)
    THEN { Get(h[n].actions)[i].next_node : i \in 1..Len(Get(h[n].actions)) }
    ELSE {}

RECURSIVE Reach(_, _)
\* the nodes reachable from the nodes of S, S included
Reach(h, S) ==
    LET T == S \cup UNION { Succ(h, n) : n \in S }
    IN  IF T = S THEN S ELSE Reach(h, T)

\* the nodes reachable from the root
Reachable == IF root = None THEN {} ELSE Reach(heap, {Get(root)})

\* the child's subtree: c and everything below it
Subtree(c) == Reach(heap, {c})

\* the nodes strictly below n
Below(n) == Reach(heap, Succ(heap, n))

\* the actions of the reachable nodes, as <<node, index>>
Slots ==
    { sl \in Reachable \X (1..MaxNodes + 1) :
        /\ TruthyList(heap[sl[1]].actions)
        /\ sl[2] <= Len(Get(heap[sl[1]].actions)) }

SlotAction(sl) == Get(heap[sl[1]].actions)[sl[2]]

\* no node object is reachable by two paths
TreeShaped ==
    /\ root # None
    /\ \A sl \in Slots : SlotAction(sl).next_node # Get(root)
    /\ \A s1, s2 \in Slots :
          SlotAction(s1).next_node = SlotAction(s2).next_node => s1 = s2

\* some reachable node's actions lead back to the node
Cyclic == \E n \in Reachable : n \in Below(n)

\* the positions of the node records of n, and of the edges from n to c
NodeAt(g, n) == { k \in DOMAIN g : g[k].kind = "node" /\ g[k].name = NodeId(n) }

EdgeAt(g, n, c) ==
    { k \in DOMAIN g : g[k].kind = "edge" /\ g[k].tail = NodeId(n) /\ g[k].head = NodeId(c) }

NodeRecords(g) == { k \in DOMAIN g : g[k].kind = "node" }

EdgeRecords(g) == { k \in DOMAIN g : g[k].kind = "edge" }

\* the node a graph identifier stands for
NodeOf(name) == CHOOSE n \in Nodes : NodeId(n) = name

\* the calls that returned a graph
Returned == { k \in DOMAIN results : results[k].outcome = "returned" }

\* ------------------------------------------------------------------------
\* C1
\* ------------------------------------------------------------------------

\* C1: on a tree-shaped input every call of draw_game_tree returns a graph
\* with exactly one node record per reachable GameNode, under pairwise
\* distinct identifiers, and exactly one edge per action, so that
\* edges = nodes - 1.
C1_OneRecordPerNodeAndAction ==
    TreeShaped =>
        \A k \in DOMAIN results :
            /\ results[k].outcome = "returned"
            /\ LET g == results[k].graph
               IN  /\ \A n \in Reachable : Cardinality(NodeAt(g, n)) = 1
                   /\ Cardinality(NodeRecords(g)) = Cardinality(Reachable)
                   /\ \A i, j \in NodeRecords(g) : g[i].name = g[j].name => i = j
                   /\ \A sl \in Slots :
                         Cardinality(EdgeAt(g, sl[1], SlotAction(sl).next_node)) = 1
                   /\ Cardinality(EdgeRecords(g)) = Cardinality(Slots)
                   /\ Cardinality(EdgeRecords(g)) = Cardinality(NodeRecords(g)) - 1

\* a returned graph of a tree whose root has two actions, each to a terminal
\* node, the two terminal nodes equal field by field: 3 nodes and 2 edges
C1_Witness ==
    /\ TreeShaped
    /\ Cardinality(Reachable) = 3
    /\ \E a, b \in Reachable :
          /\ a # b
          /\ heap[a] = heap[b]
          /\ heap[a].is_terminal
          /\ Succ(heap, Get(root)) = {a, b}
    /\ \E k \in Returned :
          /\ Cardinality(NodeRecords(results[k].graph)) = 3
          /\ Cardinality(EdgeRecords(results[k].graph)) = 2

\* ------------------------------------------------------------------------
\* C6
\* ------------------------------------------------------------------------

\* the records of a graph that belong to the subtree of c: the node records
\* of its nodes and the edges that lead into them
RecordsOf(g, c) ==
    { k \in DOMAIN g :
        \/ g[k].kind = "node" /\ NodeOf(g[k].name) \in Subtree(c)
        \/ g[k].kind = "edge" /\ NodeOf(g[k].head) \in Subtree(c) }

\* C6: on a tree-shaped input the returned graph is in depth-first pre-order
\* and keeps the order of the actions: the record of a node comes before the
\* records of the nodes below it, the edges of a node come in the order of
\* its actions, and everything of the subtree of an action comes before
\* anything of the subtree of a later action of the same node.
C6_PreOrderKeepsActionOrder ==
    TreeShaped =>
        \A k \in Returned :
            LET g == results[k].graph
            IN  /\ \A n \in Reachable : \A d \in Below(n) :
                      \A kn \in NodeAt(g, n), kd \in NodeAt(g, d) : kn < kd
                /\ \A s1, s2 \in Slots :
                      (s1[1] = s2[1] /\ s1[2] < s2[2]) =>
                          LET c1 == SlotAction(s1).next_node
                              c2 == SlotAction(s2).next_node
                          IN  /\ \A e1 \in EdgeAt(g, s1[1], c1), e2 \in EdgeAt(g, s2[1], c2) :
                                    e1 < e2
                              /\ \A r1 \in RecordsOf(g, c1), r2 \in RecordsOf(g, c2) :
                                    r1 < r2

\* a returned graph of a tree whose root has two actions, the first of them
\* leading to a node that has a child of its own
C6_Witness ==
    /\ TreeShaped
    /\ \E s1, s2 \in Slots :
          /\ s1[1] = Get(root) /\ s2[1] = Get(root) /\ s1[2] < s2[2]
          /\ Succ(heap, SlotAction(s1).next_node) # {}
    /\ \E k \in Returned : Cardinality(NodeRecords(results[k].graph)) = Cardinality(Reachable)

\* ------------------------------------------------------------------------
\* C8
\* ------------------------------------------------------------------------

\* C8: a missing optional field never stops the traversal: the record of a
\* non-terminal node without a player name is labelled "Unknown" and the moves
\* marker, the record of a terminal node without a payoff has empty outcome
\* and payoff sections, and on a tree-shaped input the call returns a graph
\* that holds every reachable node.
C8_FallbacksForMissingFields ==
    /\ \A k \in DOMAIN body :
          body[k].kind = "node" =>
              LET node == heap[NodeOf(body[k].name)]
              IN  /\ (~node.is_terminal /\ ~TruthyStr(node.current_player_name))
                        => body[k].label = "Unknown\n(Moves)"
                  /\ (node.is_terminal /\ node.payoff = None)
                        => body[k].label = "Outcome:\n\n\nPayoffs:\n"
    /\ TreeShaped =>
          \A k \in DOMAIN results :
              /\ results[k].outcome = "returned"
              /\ \A n \in Reachable : NodeAt(results[k].graph, n) # {}

\* a returned graph of a tree with a non-terminal node whose player name is
\* None and which has a child: the node and the child are both in the graph
C8_Witness ==
    /\ TreeShaped
    /\ \E n \in Reachable :
          /\ ~heap[n].is_terminal
          /\ heap[n].current_player_name = None
          /\ Succ(heap, n) # {}
          /\ \E k \in Returned :
                /\ \E i \in NodeAt(results[k].graph, n) :
                      results[k].graph[i].label = "Unknown\n(Moves)"
                /\ \A c \in Succ(heap, n) : NodeAt(results[k].graph, c) # {}

\* ------------------------------------------------------------------------
\* C9
\* ------------------------------------------------------------------------

\* a record without its identifiers
Content(r) == [kind |-> r.kind, label |-> r.label, shape |-> r.shape,
               fillcolor |-> r.fillcolor]

\* the position in g of the first node record named name (0 when there is none)
PositionOf(g, name) ==
    IF \E k \in DOMAIN g : g[k].kind = "node" /\ g[k].name = name
    THEN CHOOSE k \in DOMAIN g :
            /\ g[k].kind = "node" /\ g[k].name = name
            /\ \A j \in 1..(k - 1) : ~(g[j].kind = "node" /\ g[j].name = name)
    ELSE 0

\* C9: two calls on the same tree that both return give graphs with the same
\* sequence of labels, shapes and fill colours, whose edges join the same
\* positions of the node sequence; and no call changes the tree.
C9_SecondCallGivesTheSameGraph ==
    /\ results # <<>> => tree0 = Some(heap)
    /\ (Len(results) = 2 /\ Returned = {1, 2}) =>
          LET g1 == results[1].graph
              g2 == results[2].graph
          IN  /\ Len(g1) = Len(g2)
              /\ \A k \in DOMAIN g1 : Content(g1[k]) = Content(g2[k])
              /\ \A k \in DOMAIN g1 :
                    g1[k].kind = "edge" =>
                        /\ PositionOf(g1, g1[k].tail) = PositionOf(g2, g2[k].tail)
                        /\ PositionOf(g1, g1[k].head) = PositionOf(g2, g2[k].head)

\* two calls have returned, each a graph with edges
C9_Witness ==
    /\ Len(results) = 2
    /\ Returned = {1, 2}
    /\ EdgeRecords(results[1].graph) # {}
    /\ EdgeRecords(results[2].graph) # {}

\* ------------------------------------------------------------------------
\* C10
\* ------------------------------------------------------------------------

\* C10, as claimed: when an edge parent->child is in the body, the node
\* records of the child and of every node below the child are already there,
\* ahead of the edge.
C10_EdgeAfterWholeSubtree ==
    TreeShaped =>
        \A k \in DOMAIN body :
            body[k].kind = "edge" =>
                \A d \in Subtree(NodeOf(body[k].head)) :
                    \E j \in 1..(k - 1) : body[j].kind = "node" /\ body[j].name = NodeId(d)

\* C10, amended: the edge parent->child is emitted by the child's own
\* activation, right after the child's node record: when the edge is emitted
\* the node records of the parent and of the child are there and no record of
\* a node below the child is.
C10_EdgeRightAfterChildRecord ==
    TreeShaped =>
        \A k \in DOMAIN body :
            body[k].kind = "edge" =>
                /\ k > 1
                /\ body[k - 1].kind = "node"
                /\ body[k - 1].name = body[k].head
                /\ \E j \in 1..(k - 1) : body[j].kind = "node" /\ body[j].name = body[k].tail
                /\ NodeOf(body[k].head) \in Succ(heap, NodeOf(body[k].tail))
                /\ \A d \in Below(NodeOf(body[k].head)) :
                      \A j \in 1..k : ~(body[j].kind = "node" /\ body[j].name = NodeId(d))

\* the traversal of a tree has emitted the edge to a child that has a child
\* of its own, and has not yet returned
C10_Witness ==
    /\ TreeShaped
    /\ pc = "running"
    /\ \E k \in DOMAIN body :
          /\ body[k].kind = "edge"
          /\ Below(NodeOf(body[k].head)) # {}
          /\ k = Len(body)

\* ------------------------------------------------------------------------
\* C2
\* ------------------------------------------------------------------------

\* C2: when an action of a reachable node leads back to the node itself or to
\* an ancestor, every call ends by reporting MalformedReference, and no node
\* gets a second node record.
C2_CycleReportedAsMalformedReference ==
    Cyclic =>
        /\ \A i, j \in NodeRecords(body) : body[i].name = body[j].name => i = j
        /\ \A k \in DOMAIN results : results[k].outcome = "MalformedReference"

\* ------------------------------------------------------------------------
\* C3
\* ------------------------------------------------------------------------

\* C3: a call with no root ends with the MissingRoot error, never with a
\* graph of no nodes and no edges.
C3_MissingRootReported ==
    root = None =>
        \A k \in DOMAIN results :
            /\ results[k].outcome = "MissingRoot"
            /\ ~(results[k].outcome = "returned" /\ results[k].graph = <<>>)

\* ------------------------------------------------------------------------
\* C4
\* ------------------------------------------------------------------------

\* the label the claim gives the edge of an action: the name, and the
\* "(p=<value>)" suffix exactly when the probability is not None, wrapped
ClaimedEdgeLabel(action) ==
    wrap_text(IF action.probability # None
              THEN action.name \o "\n(p=" \o ProbStr(Get(action.probability)) \o ")"
              ELSE action.name,
              EdgeWidth)

\* C4: in a returned graph of a tree-shaped input the edge of every action
\* carries the action's name followed by the "(p=<value>)" suffix exactly when
\* the action has a probability, and the name alone exactly when it has none.
C4_SuffixIffProbabilityPresent ==
    TreeShaped =>
        \A k \in Returned : \A sl \in Slots :
            \A e \in EdgeAt(results[k].graph, sl[1], SlotAction(sl).next_node) :
                results[k].graph[e].label = ClaimedEdgeLabel(SlotAction(sl))

\* ------------------------------------------------------------------------
\* C5
\* ------------------------------------------------------------------------

\* C5: on a tree-shaped input no edge leaves a node whose is_terminal is true,
\* whatever its actions hold, and no edge leaves a node whose actions are
\* empty or None.
C5_NoEdgeFromTerminalNode ==
    TreeShaped =>
        \A k \in DOMAIN body :
            body[k].kind = "edge" =>
                /\ ~heap[NodeOf(body[k].tail)].is_terminal
                /\ TruthyList(heap[NodeOf(body[k].tail)].actions)

\* ------------------------------------------------------------------------
\* C7
\* ------------------------------------------------------------------------

\* C7: once the nodes are validated, a non-terminal node with exactly one
\* action and a player that is not Nature has exactly one violation on
\* record, a ChoiceCardinality violation under the node's id, and keeps its
\* action list.
C7_OneChoiceCardinalityViolation ==
    pc # "construct" =>
        \A n \in Nodes :
            ( /\ ~heap[n].is_terminal
              /\ TruthyList(heap[n].actions)
              /\ Len(Get(heap[n].actions)) = 1
              /\ TruthyStr(heap[n].current_player_name)
              /\ ~IsNature(heap[n]) )
            => /\ Cardinality({ k \in DOMAIN errors : errors[k].node = n }) = 1
               /\ \A k \in DOMAIN errors :
                     errors[k].node = n =>
                         /\ errors[k].rule = "ChoiceCardinality"
                         /\ errors[k].nodeId = heap[n].id
====
